---- MODULE Spec2Model ----
(***************************************************************************)
(* Model of the upload pipeline of terraform-assignment:                   *)
(*   lambda_trigger/index.py           (Dispatch: validate_s3_key, handler)*)
(*   lambda_writer/index.py            (Metadata Writer)                   *)
(*   lambda_security_monitor/index.py  (Compliance Scanner)                *)
(*                                                                         *)
(* A string is a sequence of one-character tokens.  "NUL" stands for the   *)
(* character '\x00', " " and "TAB" are whitespace characters.              *)
(***************************************************************************)
EXTENDS Integers, Sequences, FiniteSets, TLC

\* ------------------------------------------------------------------------
\* Bounds of the model
\* ------------------------------------------------------------------------
MaxPrefixLen == 3
PadSlack == 1
MaxBatch == 2
MaxDeliveries == 2
MaxClock == 1
NumWriters == 2
MaxBuckets == 2
MaxTables == 2

\* ------------------------------------------------------------------------
\* Program constants
\* ------------------------------------------------------------------------
S3KeyMaxLen == 1024
FilenameMaxLen == 1024

None == "None"

VARIABLES
    \* standalone validator calls
    vkey, vs3, vfn,
    \* wall clock read by datetime.now(UTC)
    clock,
    \* event source and one Dispatch invocation (lambda_trigger handler)
    pending, deliveries, dpc, di, execution_arns, dresult,
    \* whether stepfunctions.start_execution raised in this invocation
    sfn_failed,
    \* the orchestrator: every execution started so far
    executions,
    \* Metadata Writer invocations (lambda_writer handler) and the table
    wpc, wevent, witem, wresult, store,
    \* what put_item answered to each invocation
    wput,
    \* the account seen by the Compliance Scanner and one Scanner invocation
    s3world, ddbworld, spc, bi, ti, s3_issues, unencrypted_tables, all_issues,
    publishes, sresult, serror

vvars == <<vkey, vs3, vfn>>
dvars == <<pending, deliveries, dpc, di, execution_arns, dresult, executions, sfn_failed>>
wvars == <<wpc, wevent, witem, wresult, store, wput>>
svars == <<s3world, ddbworld, spc, bi, ti, s3_issues, unencrypted_tables, all_issues,
           publishes, sresult, serror>>
vars == <<vvars, clock, dvars, wvars, svars>>

\* ------------------------------------------------------------------------
\* Strings
\* ------------------------------------------------------------------------
Chars == {"a", ".", "/", " ", "TAB", "NUL"}
Whitespace == {" ", "TAB"}

\* 'a' * n
Pad(n) == [i \in 1..n |-> "a"]

\* sub in s   (Python substring test, for a two-character sub)
Contains2(s, c1, c2) == \E i \in 1..(Len(s) - 1) : s[i] = c1 /\ s[i + 1] = c2

\* c in s
Contains1(s, c) == \E i \in 1..Len(s) : s[i] = c

\* s.startswith(c)
StartsWith(s, c) == Len(s) >= 1 /\ s[1] = c

\* s.strip(): s without its leading and trailing whitespace
Strip(s) ==
    LET nonws == {i \in 1..Len(s) : s[i] \notin Whitespace}
    IN  IF nonws = {} THEN <<>>
        ELSE LET lo == CHOOSE i \in nonws : \A j \in nonws : i <= j
                 hi == CHOOSE i \in nonws : \A j \in nonws : j <= i
             IN  SubSeq(s, lo, hi)

\* Python truthiness of a string: not s  <=>  s == ''
Falsy(s) == Len(s) = 0

\* ------------------------------------------------------------------------
\* lambda_trigger/index.py: validate_s3_key
\* The result is "ok" (returns True) or the ValueError that is raised.
\* ------------------------------------------------------------------------
validate_s3_key_len_ge(key) ==
    IF Contains2(key, ".", ".") \/ StartsWith(key, "/") THEN "ValueError:path-traversal"
    ELSE IF Contains1(key, "NUL") THEN "ValueError:null-bytes"
    ELSE IF Len(key) >= S3KeyMaxLen THEN "ValueError:too-long"
    ELSE IF Falsy(key) \/ Falsy(Strip(key)) THEN "ValueError:empty"
    ELSE "ok"

validate_s3_key_no_slash(key) ==
    IF Contains2(key, ".", ".") THEN "ValueError:path-traversal"
    ELSE IF Contains1(key, "NUL") THEN "ValueError:null-bytes"
    ELSE IF Len(key) > S3KeyMaxLen THEN "ValueError:too-long"
    ELSE IF Falsy(key) \/ Falsy(Strip(key)) THEN "ValueError:empty"
    ELSE "ok"

validate_s3_key(key) ==
    IF Contains2(key, ".", ".") \/ StartsWith(key, "/") THEN "ValueError:path-traversal"
    ELSE IF Contains1(key, "NUL") THEN "ValueError:null-bytes"
    ELSE IF Len(key) > S3KeyMaxLen THEN "ValueError:too-long"
    ELSE IF Falsy(key) \/ Falsy(Strip(key)) THEN "ValueError:empty"
    ELSE "ok"

\* ------------------------------------------------------------------------
\* lambda_writer/index.py: validate_filename
\* ------------------------------------------------------------------------
validate_filename_no_null(filename) ==
    IF Falsy(filename) \/ Falsy(Strip(filename)) THEN "ValueError:empty"
    ELSE IF Len(filename) > FilenameMaxLen THEN "ValueError:too-long"
    ELSE IF Contains2(filename, ".", ".") \/ StartsWith(filename, "/") THEN "ValueError:path-traversal"
    ELSE "ok"

validate_filename(filename) ==
    IF Falsy(filename) \/ Falsy(Strip(filename)) THEN "ValueError:empty"
    ELSE IF Len(filename) > FilenameMaxLen THEN "ValueError:too-long"
    ELSE IF Contains2(filename, ".", ".") \/ StartsWith(filename, "/") THEN "ValueError:path-traversal"
    ELSE IF Contains1(filename, "NUL") THEN "ValueError:null-bytes"
    ELSE "ok"


\* ------------------------------------------------------------------------
\* Inputs
\* ------------------------------------------------------------------------
KeyGood == <<"a">>
KeyBad == <<".", ".", "/", "a">>
DispatchKeys == {KeyGood, KeyBad}
Buckets == {"bkt-1", "bkt-2"}
\* eventTime of a notification: the upload happened before the clock started
EventTimes == {-1}

RECURSIVE SeqsUpTo(_, _)
SeqsUpTo(S, n) ==
    IF n = 0 THEN {<<>>}
    ELSE LET shorter == SeqsUpTo(S, n - 1)
         IN  shorter \cup {Append(q, x) : q \in {r \in shorter : Len(r) = n - 1}, x \in S}

PadLens == {0} \cup ((S3KeyMaxLen - PadSlack)..(S3KeyMaxLen + 1))
KeyInputs == {p \o Pad(n) : p \in SeqsUpTo(Chars, MaxPrefixLen), n \in PadLens}

\* record of event['Records']: s3.bucket.name, s3.object.key, eventTime
Notifications == [bucket : Buckets, key : DispatchKeys, eventTime : EventTimes]
Injective(q) == \A i, j \in 1..Len(q) : q[i] = q[j] => i = j
Batches == {b \in SeqsUpTo(Notifications, MaxBatch) : Len(b) >= 1 /\ Injective(b)}

Writers == 1..NumWriters
Timestamps == 0..MaxClock
WriterEvents ==
    [key : DispatchKeys, bucket : Buckets]
    \cup [key : DispatchKeys, bucket : Buckets, timestamp : Timestamps]
    \cup [key : DispatchKeys, bucket : Buckets, event_time : EventTimes]
    \cup [key : DispatchKeys, bucket : Buckets, timestamp : Timestamps, event_time : EventTimes]

NoResult == [statusCode |-> 0]
NoItem == [Filename |-> <<>>]
NoEvent == [key |-> <<>>]
NoError == [op |-> None, error |-> None]

\* dict.get(name, default)
Get(d, name, default) == IF name \in DOMAIN d THEN d[name] ELSE default

\* ------------------------------------------------------------------------
\* Initial states
\* ------------------------------------------------------------------------
ValidatorIdle == vkey = <<>> /\ vs3 = None /\ vfn = None
DispatchIdle ==
    /\ pending = <<>> /\ deliveries = 0 /\ dpc = "idle" /\ di = 0
    /\ execution_arns = <<>> /\ dresult = NoResult /\ executions = <<>>
    /\ sfn_failed = FALSE
WriterIdle ==
    /\ wpc = [w \in Writers |-> "idle"]
    /\ wevent = [w \in Writers |-> NoEvent]
    /\ witem = [w \in Writers |-> NoItem]
    /\ wresult = [w \in Writers |-> NoResult]
    /\ store = {}
    /\ wput = [w \in Writers |-> None]

ScannerIdle ==
    /\ spc = "idle" /\ bi = 0 /\ ti = 0
    /\ s3_issues = <<>> /\ unencrypted_tables = <<>> /\ all_issues = <<>>
    /\ publishes = <<>> /\ sresult = NoResult /\ serror = NoError
NoAccount == s3world = <<>> /\ ddbworld = <<>>

Init == ValidatorIdle /\ clock = 0 /\ DispatchIdle /\ WriterIdle /\ NoAccount /\ ScannerIdle

\* datetime.now(UTC) advances between any two steps
Tick == clock < MaxClock /\ clock' = clock + 1 /\ UNCHANGED <<vvars, svars, dvars, wvars>>

\* ------------------------------------------------------------------------
\* Standalone validator calls
\* ------------------------------------------------------------------------
InitValidate ==
    /\ vkey \in KeyInputs /\ vs3 = None /\ vfn = None
    /\ clock = 0 /\ DispatchIdle /\ WriterIdle /\ NoAccount /\ ScannerIdle

CallValidateS3Key ==
    /\ vs3 = None
    /\ vs3' = validate_s3_key(vkey)
    /\ UNCHANGED <<vkey, vfn, svars, clock, dvars, wvars>>

CallValidateFilename ==
    /\ vfn = None
    /\ vfn' = validate_filename(vkey)
    /\ UNCHANGED <<vkey, vs3, svars, clock, dvars, wvars>>

NextValidate == CallValidateS3Key \/ CallValidateFilename
SpecValidate == InitValidate /\ [][NextValidate]_vars

\* ------------------------------------------------------------------------
\* lambda_trigger/index.py: handler
\* ------------------------------------------------------------------------
StartDispatch ==
    /\ dpc' = "loop" /\ di' = 1 /\ execution_arns' = <<>> /\ dresult' = NoResult
    /\ deliveries' = deliveries + 1
    /\ sfn_failed' = FALSE

\* the event source delivers a batch
DispatchInvoke(b) ==
    /\ dpc = "idle" /\ deliveries = 0
    /\ pending' = b
    /\ StartDispatch
    /\ UNCHANGED <<vvars, svars, clock, executions, wvars>>

\* the event source delivers the batch again after a failed invocation
DispatchRedeliver ==
    /\ dpc = "raised" /\ deliveries < MaxDeliveries
    /\ StartDispatch
    /\ UNCHANGED <<vvars, svars, clock, pending, executions, wvars>>

DispatchValidationErrorRaised ==
    /\ dpc = "loop" /\ di <= Len(pending)
    /\ validate_s3_key(pending[di].key) # "ok"
    /\ dpc' = "raised"
    /\ UNCHANGED <<vvars, svars, clock, pending, deliveries, di, execution_arns, dresult, executions, sfn_failed, wvars>>

\* validate_s3_key raises ValueError: caught by the handler's except ValueError
DispatchValidationError ==
    /\ dpc = "loop" /\ di <= Len(pending)
    /\ validate_s3_key(pending[di].key) # "ok"
    /\ dpc' = "returned"
    /\ dresult' = [statusCode |-> 200,
                   body |-> [message |-> "Validation failed, pipeline halted"]]
    /\ UNCHANGED <<vvars, svars, clock, pending, deliveries, di, execution_arns, executions, sfn_failed, wvars>>

step_function_input(record, now) ==
    [bucket |-> record.bucket, key |-> record.key,
     timestamp |-> now, event_time |-> record.eventTime]

DispatchStartExecutionUnchecked ==
    /\ dpc = "loop" /\ di <= Len(pending)
    /\ LET arn == Len(executions) + 1
       IN  /\ executions' = Append(executions,
                [arn |-> arn, input |-> step_function_input(pending[di], clock),
                 delivery |-> deliveries])
           /\ execution_arns' = Append(execution_arns, arn)
    /\ di' = di + 1
    /\ UNCHANGED <<vvars, svars, clock, pending, deliveries, dpc, dresult, sfn_failed, wvars>>

\* the key is valid and stepfunctions.start_execution returns an executionArn
DispatchStartExecution ==
    /\ dpc = "loop" /\ di <= Len(pending)
    /\ validate_s3_key(pending[di].key) = "ok"
    /\ LET arn == Len(executions) + 1
       IN  /\ executions' = Append(executions,
                [arn |-> arn, input |-> step_function_input(pending[di], clock),
                 delivery |-> deliveries])
           /\ execution_arns' = Append(execution_arns, arn)
    /\ di' = di + 1
    /\ UNCHANGED <<vvars, svars, clock, pending, deliveries, dpc, dresult, sfn_failed, wvars>>

\* what a failing stepfunctions.start_execution raises, by the except
\* clause of the handler that catches it: a ValueError (or a subclass, such
\* as botocore's InvalidRegionError or a UnicodeEncodeError) or any other
\* exception (a ClientError, a connection error)
SubmissionErrors == {"ValueError", "ClientError"}

\* the key is valid and stepfunctions.start_execution raises: a ValueError
\* is caught by except ValueError and answered with the message-only
\* status-200 result, anything else is re-raised by except Exception
DispatchStartExecutionFails(error) ==
    /\ dpc = "loop" /\ di <= Len(pending)
    /\ validate_s3_key(pending[di].key) = "ok"
    /\ sfn_failed' = TRUE
    /\ IF error = "ValueError"
       THEN /\ dpc' = "returned"
            /\ dresult' = [statusCode |-> 200,
                           body |-> [message |-> "Validation failed, pipeline halted"]]
       ELSE /\ dpc' = "raised"
            /\ UNCHANGED dresult
    /\ UNCHANGED <<vvars, svars, clock, pending, deliveries, di, execution_arns, executions, wvars>>

\* end of the loop over event['Records']
DispatchReturn ==
    /\ dpc = "loop" /\ di > Len(pending)
    /\ dpc' = "returned"
    /\ dresult' = [statusCode |-> 200,
                   body |-> [message |-> "Successfully triggered Step Functions",
                             executions |-> execution_arns]]
    /\ UNCHANGED <<vvars, svars, clock, pending, deliveries, di, execution_arns, executions, sfn_failed, wvars>>

\* ------------------------------------------------------------------------
\* The metadata table: put_item with
\* ConditionExpression attribute_not_exists(Filename) AND
\* attribute_not_exists(UploadTimestamp), evaluated atomically against the
\* item that has the primary key (Filename, UploadTimestamp) of the new item
\* ------------------------------------------------------------------------
SameKey(tbl, item) ==
    {r \in tbl : r.Filename = item.Filename /\ r.UploadTimestamp = item.UploadTimestamp}

put_item_unconditional(tbl, item) ==
    [error |-> None, table |-> (tbl \ SameKey(tbl, item)) \cup {item}]

put_item_keep_both(tbl, item) ==
    IF item \in tbl
    THEN [error |-> "ConditionalCheckFailedException", table |-> tbl]
    ELSE [error |-> None, table |-> tbl \cup {item}]

put_item(tbl, item) ==
    IF SameKey(tbl, item) # {}
    THEN [error |-> "ConditionalCheckFailedException", table |-> tbl]
    ELSE [error |-> None, table |-> (tbl \ SameKey(tbl, item)) \cup {item}]

\* ------------------------------------------------------------------------
\* lambda_writer/index.py: handler
\* ------------------------------------------------------------------------
Item(event, now) ==
    LET timestamp == Get(event, "timestamp", now)
    IN  [Filename |-> event.key,
         UploadTimestamp |-> timestamp,
         Bucket |-> event.bucket,
         EventTime |-> Get(event, "event_time", timestamp)]

WriterStartUnchecked(w, event) ==
    /\ wpc[w] = "idle"
    /\ wevent' = [wevent EXCEPT ![w] = event]
    /\ witem' = [witem EXCEPT ![w] = Item(event, clock)]
    /\ wpc' = [wpc EXCEPT ![w] = "put"]
    /\ UNCHANGED <<wresult, store, wput>>

\* from the start of the handler up to the put_item call
WriterStart(w, event) ==
    /\ wpc[w] = "idle"
    /\ wevent' = [wevent EXCEPT ![w] = event]
    /\ IF validate_filename(event.key) = "ok"
       THEN /\ witem' = [witem EXCEPT ![w] = Item(event, clock)]
            /\ wpc' = [wpc EXCEPT ![w] = "put"]
            /\ UNCHANGED wresult
       ELSE /\ wpc' = [wpc EXCEPT ![w] = "raised"]
            /\ wresult' = [wresult EXCEPT ![w] = [statusCode |-> 0, error |-> "ValueError"]]
            /\ UNCHANGED witem
    /\ UNCHANGED <<store, wput>>

\* the workflow runs (or retries) the Writer on the input of an execution
WriterInvokeExecution(w, e) ==
    /\ e \in 1..Len(executions)
    /\ WriterStart(w, executions[e].input)
    /\ UNCHANGED <<vvars, svars, clock, dvars>>

\* a direct invocation of the Writer
WriterInvokeDirect(w, event) ==
    /\ WriterStart(w, event)
    /\ UNCHANGED <<vvars, svars, clock, dvars>>

\* put_item answers: success or ConditionalCheckFailedException
WriterPut(w) ==
    /\ wpc[w] = "put"
    /\ LET item == witem[w]
           out == put_item(store, item)
       IN  /\ store' = out.table
           /\ wput' = [wput EXCEPT ![w] = IF out.error = None THEN "ok" ELSE out.error]
           /\ wresult' = [wresult EXCEPT ![w] =
                IF out.error = None
                THEN [statusCode |-> 200, filename |-> item.Filename,
                      timestamp |-> item.UploadTimestamp, bucket |-> item.Bucket,
                      message |-> "Successfully written to DynamoDB"]
                ELSE [statusCode |-> 409, filename |-> item.Filename,
                      timestamp |-> item.UploadTimestamp,
                      message |-> "Duplicate entry - item already exists"]]
    /\ wpc' = [wpc EXCEPT ![w] = "returned"]
    /\ UNCHANGED <<vvars, svars, clock, dvars, wevent, witem>>

WriterPutFailsAsDuplicate(w) ==
    /\ wpc[w] = "put"
    /\ wput' = [wput EXCEPT ![w] = "ProvisionedThroughputExceededException"]
    /\ wpc' = [wpc EXCEPT ![w] = "returned"]
    /\ wresult' = [wresult EXCEPT ![w] =
            [statusCode |-> 409, filename |-> witem[w].Filename,
             timestamp |-> witem[w].UploadTimestamp,
             message |-> "Duplicate entry - item already exists"]]
    /\ UNCHANGED <<vvars, svars, clock, dvars, wevent, witem, store>>

\* put_item fails with any other ClientError: re-raised
WriterPutFails(w) ==
    /\ wpc[w] = "put"
    /\ wput' = [wput EXCEPT ![w] = "ProvisionedThroughputExceededException"]
    /\ wpc' = [wpc EXCEPT ![w] = "raised"]
    /\ wresult' = [wresult EXCEPT ![w] = [statusCode |-> 0, error |-> "ClientError"]]
    /\ UNCHANGED <<vvars, svars, clock, dvars, wevent, witem, store>>

\* ------------------------------------------------------------------------
\* Specifications
\* ------------------------------------------------------------------------
\* the pipeline: event source -> Dispatch -> orchestrator -> Writer
Next ==
    \/ Tick
    \/ \E b \in Batches : DispatchInvoke(b)
    \/ DispatchRedeliver
    \/ DispatchValidationError
    \/ DispatchStartExecution
    \/ \E error \in SubmissionErrors : DispatchStartExecutionFails(error)
    \/ DispatchReturn
    \/ \E w \in Writers : \E e \in 1..Len(executions) : WriterInvokeExecution(w, e)
    \/ \E w \in Writers : WriterPut(w)
    \/ \E w \in Writers : WriterPutFails(w)

Spec == Init /\ [][Next]_vars

\* the Writer alone, invoked directly and concurrently
NextWriter ==
    \/ Tick
    \/ \E w \in Writers : \E event \in WriterEvents : WriterInvokeDirect(w, event)
    \/ \E w \in Writers : WriterPut(w)
    \/ \E w \in Writers : WriterPutFails(w)

SpecWriter == Init /\ [][NextWriter]_vars


\* ------------------------------------------------------------------------
\* The account audited by the Scanner.  What get_bucket_encryption does for
\* a bucket: it returns a configuration whose first rule names an algorithm,
\* returns a configuration with an empty rule list, raises a ClientError
\* with some code, or raises an exception that is no ClientError.
\* ------------------------------------------------------------------------
Algorithms == {"aws:kms", "AES256", "aws:kms:dsse"}
NotFoundCode == "ClientError:ServerSideEncryptionConfigurationNotFoundError"
ClientErrors == {NotFoundCode, "ClientError:AccessDenied"}
OtherErrors == {"EndpointConnectionError"}
BucketStates == Algorithms \cup {"EmptyRules"} \cup ClientErrors \cup OtherErrors
\* describe_table: the Status of SSEDescription, no SSEDescription, or an error
SSEStatuses == {"ENABLED", "DISABLED", "ENABLING"}
TableStates == SSEStatuses \cup {"NoSSEDescription",
                "ClientError:AccessDenied", "EndpointConnectionError"}

BucketName(i) == <<"bucket", i>>
TableName(i) == <<"table", i>>
BucketWorlds == UNION {[1..n -> BucketStates] : n \in 0..MaxBuckets}
TableWorlds == UNION {[1..n -> TableStates] : n \in 0..MaxTables}

\* ------------------------------------------------------------------------
\* lambda_security_monitor/index.py
\* ------------------------------------------------------------------------
AlertSubject == "Audit Complete: Resources Need KMS Encryption Review"
FailedSubject == "Security Scan FAILED"
message_intro == "Hi team, ... Here's a breakdown of what it found:\n\n"
message_footer == "\n\nPlease take a look ... - Your Friendly Security Bot"

Fail(op, error) ==
    /\ spc' = "failed"
    /\ serror' = [op |-> op, error |-> error]

ScanInvoke ==
    /\ spc = "idle"
    /\ spc' = "list_buckets"
    /\ UNCHANGED <<vvars, clock, dvars, wvars, s3world, ddbworld, bi, ti, s3_issues,
                   unencrypted_tables, all_issues, publishes, sresult, serror>>

\* check_s3_encryption: s3.list_buckets() returns
ListBuckets ==
    /\ spc = "list_buckets"
    /\ spc' = "buckets" /\ bi' = 1 /\ s3_issues' = <<>>
    /\ UNCHANGED <<vvars, clock, dvars, wvars, s3world, ddbworld, ti,
                   unencrypted_tables, all_issues, publishes, sresult, serror>>

\* check_s3_encryption: s3.list_buckets() raises; logged and re-raised
ListBucketsFails(error) ==
    /\ spc = "list_buckets"
    /\ Fail("list_buckets", error)
    /\ UNCHANGED <<vvars, clock, dvars, wvars, s3world, ddbworld, bi, ti, s3_issues,
                   unencrypted_tables, all_issues, publishes, sresult>>

wrong_algorithm_reason_generic(algorithm) ==
    <<"is not encrypted with a KMS key.">>

wrong_algorithm_reason(algorithm) ==
    <<"is not encrypted with a KMS key (uses default ", algorithm, " encryption).">>
no_configuration_reason == <<"has no encryption configuration at all.">>

\* check_s3_encryption: one iteration of the loop over the buckets
CheckBucket ==
    /\ spc = "buckets" /\ bi <= Len(s3world)
    /\ LET state == s3world[bi]
           bucket_name == BucketName(bi)
       IN  IF state \in Algorithms
           THEN /\ s3_issues' =
                     IF state # "aws:kms"
                     THEN Append(s3_issues, [name |-> bucket_name,
                                             reason |-> wrong_algorithm_reason(state)])
                     ELSE s3_issues
                /\ bi' = bi + 1
                /\ UNCHANGED <<spc, serror>>
           ELSE IF state \in ClientErrors
           THEN /\ s3_issues' =
                     IF state = NotFoundCode
                     THEN Append(s3_issues, [name |-> bucket_name,
                                             reason |-> no_configuration_reason])
                     ELSE s3_issues
                /\ bi' = bi + 1
                /\ UNCHANGED <<spc, serror>>
           \* rules[0] raises IndexError, or the call raised an exception that
           \* is no ClientError: caught by except Exception and re-raised
           ELSE /\ Fail("inspect_bucket", state)
                /\ UNCHANGED <<bi, s3_issues>>
    /\ UNCHANGED <<vvars, clock, dvars, wvars, s3world, ddbworld, ti,
                   unencrypted_tables, all_issues, publishes, sresult>>

format_bucket_issue(issue) == <<"S3 Bucket '", issue.name, "' ">> \o issue.reason
format_table_issue(table_name) == <<"DynamoDB Table '", table_name, "' is not encrypted.">>

\* check_s3_encryption returns; handler appends the formatted bucket issues
BucketsDone ==
    /\ spc = "buckets" /\ bi > Len(s3world)
    /\ all_issues' = all_issues \o [i \in 1..Len(s3_issues) |-> format_bucket_issue(s3_issues[i])]
    /\ spc' = "list_tables"
    /\ UNCHANGED <<vvars, clock, dvars, wvars, s3world, ddbworld, bi, ti, s3_issues,
                   unencrypted_tables, publishes, sresult, serror>>

\* check_dynamodb_encryption: dynamodb.list_tables() returns
ListTables ==
    /\ spc = "list_tables"
    /\ spc' = "tables" /\ ti' = 1 /\ unencrypted_tables' = <<>>
    /\ UNCHANGED <<vvars, clock, dvars, wvars, s3world, ddbworld, bi, s3_issues,
                   all_issues, publishes, sresult, serror>>

ListTablesFailsSwallowed(error) ==
    /\ spc = "list_tables"
    /\ serror' = [op |-> "list_tables", error |-> error]
    /\ spc' = IF all_issues # <<>> THEN "alert" ELSE "return"
    /\ UNCHANGED <<vvars, clock, dvars, wvars, s3world, ddbworld, bi, ti, s3_issues,
                   unencrypted_tables, all_issues, publishes, sresult>>

\* check_dynamodb_encryption: dynamodb.list_tables() raises; re-raised
ListTablesFails(error) ==
    /\ spc = "list_tables"
    /\ Fail("list_tables", error)
    /\ UNCHANGED <<vvars, clock, dvars, wvars, s3world, ddbworld, bi, ti, s3_issues,
                   unencrypted_tables, all_issues, publishes, sresult>>

table_unencrypted_disabled_only(state) == state = "DISABLED"

\* not sse_desc or sse_desc.get('Status') != 'ENABLED'
table_unencrypted(state) == state = "NoSSEDescription" \/ state # "ENABLED"

\* check_dynamodb_encryption: one iteration of the loop over the tables
CheckTable ==
    /\ spc = "tables" /\ ti <= Len(ddbworld)
    /\ LET state == ddbworld[ti]
           table_name == TableName(ti)
       IN  IF state \in SSEStatuses \cup {"NoSSEDescription"}
           THEN /\ unencrypted_tables' =
                     IF table_unencrypted(state)
                     THEN Append(unencrypted_tables, table_name)
                     ELSE unencrypted_tables
                /\ ti' = ti + 1
                /\ UNCHANGED <<spc, serror>>
           ELSE IF state \in ClientErrors
           THEN /\ ti' = ti + 1
                /\ UNCHANGED <<unencrypted_tables, spc, serror>>
           ELSE /\ Fail("inspect_table", state)
                /\ UNCHANGED <<ti, unencrypted_tables>>
    /\ UNCHANGED <<vvars, clock, dvars, wvars, s3world, ddbworld, bi, s3_issues,
                   all_issues, publishes, sresult>>

\* if all_issues: send_alert(all_issues)
AfterChecksAlways(issues) == "alert"

AfterChecks(issues) == IF issues # <<>> THEN "alert" ELSE "return"

TablesDoneTablesFirst ==
    /\ spc = "tables" /\ ti > Len(ddbworld)
    /\ all_issues' =
            [i \in 1..Len(unencrypted_tables) |-> format_table_issue(unencrypted_tables[i])]
            \o all_issues
    /\ spc' = AfterChecks(all_issues')
    /\ UNCHANGED <<vvars, clock, dvars, wvars, s3world, ddbworld, bi, ti, s3_issues,
                   unencrypted_tables, publishes, sresult, serror>>

\* check_dynamodb_encryption returns; handler appends the table issues
TablesDone ==
    /\ spc = "tables" /\ ti > Len(ddbworld)
    /\ all_issues' = all_issues \o
            [i \in 1..Len(unencrypted_tables) |-> format_table_issue(unencrypted_tables[i])]
    /\ spc' = AfterChecks(all_issues')
    /\ UNCHANGED <<vvars, clock, dvars, wvars, s3world, ddbworld, bi, ti, s3_issues,
                   unencrypted_tables, publishes, sresult, serror>>

RECURSIVE message_body_no_newline(_)
message_body_no_newline(issues_list) ==
    IF issues_list = <<>> THEN <<>>
    ELSE <<"* ">> \o issues_list[1] \o message_body_no_newline(Tail(issues_list))

\* "\n".join(f"<bullet> {issue}" for issue in issues_list); "* " is the bullet
RECURSIVE message_body(_)
message_body(issues_list) ==
    IF issues_list = <<>> THEN <<>>
    ELSE IF Len(issues_list) = 1 THEN <<"* ">> \o issues_list[1]
    ELSE <<"* ">> \o issues_list[1] \o <<"\n">> \o message_body(Tail(issues_list))

full_message(issues_list) == <<message_intro>> \o message_body(issues_list) \o <<message_footer>>

\* send_alert: sns.publish returns a MessageId
SendAlert ==
    /\ spc = "alert"
    /\ publishes' = Append(publishes, [subject |-> AlertSubject,
                                       message |-> full_message(all_issues), ok |-> TRUE])
    /\ spc' = "return"
    /\ UNCHANGED <<vvars, clock, dvars, wvars, s3world, ddbworld, bi, ti, s3_issues,
                   unencrypted_tables, all_issues, sresult, serror>>

SendAlertFailsDirect(error) ==
    /\ spc = "alert"
    /\ publishes' = Append(publishes, [subject |-> AlertSubject,
                                       message |-> full_message(all_issues), ok |-> FALSE])
    /\ spc' = "raised"
    /\ serror' = [op |-> "publish", error |-> error]
    /\ sresult' = [statusCode |-> 0, raised |-> error]
    /\ UNCHANGED <<vvars, clock, dvars, wvars, s3world, ddbworld, bi, ti, s3_issues,
                   unencrypted_tables, all_issues>>

\* send_alert: sns.publish raises; caught by the handler's except Exception
SendAlertFails(error) ==
    /\ spc = "alert"
    /\ publishes' = Append(publishes, [subject |-> AlertSubject,
                                       message |-> full_message(all_issues), ok |-> FALSE])
    /\ Fail("publish", error)
    /\ UNCHANGED <<vvars, clock, dvars, wvars, s3world, ddbworld, bi, ti, s3_issues,
                   unencrypted_tables, all_issues, sresult>>

ScanReturn ==
    /\ spc = "return"
    /\ sresult' = [statusCode |-> 200, issues_found |-> Len(all_issues),
                   body |-> [message |-> "Security scan completed", issues |-> all_issues]]
    /\ spc' = "returned"
    /\ UNCHANGED <<vvars, clock, dvars, wvars, s3world, ddbworld, bi, ti, s3_issues,
                   unencrypted_tables, all_issues, publishes, serror>>

ScanFailedMasked(published) ==
    /\ spc = "failed"
    /\ publishes' = Append(publishes, [subject |-> FailedSubject,
                                       message |-> <<"The scheduled security scan encountered a critical error and could not complete:\n\n", serror.error>>,
                                       ok |-> published])
    /\ sresult' = [statusCode |-> 0,
                   raised |-> IF published THEN serror.error ELSE "PublishError"]
    /\ spc' = "raised"
    /\ UNCHANGED <<vvars, clock, dvars, wvars, s3world, ddbworld, bi, ti, s3_issues,
                   unencrypted_tables, all_issues, serror>>

\* except Exception: publish the scan-failure message (whose own failure is
\* swallowed) and re-raise the original exception
ScanFailed(published) ==
    /\ spc = "failed"
    /\ publishes' = Append(publishes, [subject |-> FailedSubject,
                                       message |-> <<"The scheduled security scan encountered a critical error and could not complete:\n\n", serror.error>>,
                                       ok |-> published])
    /\ sresult' = [statusCode |-> 0, raised |-> serror.error]
    /\ spc' = "raised"
    /\ UNCHANGED <<vvars, clock, dvars, wvars, s3world, ddbworld, bi, ti, s3_issues,
                   unencrypted_tables, all_issues, serror>>

InitScan ==
    /\ ValidatorIdle /\ clock = 0 /\ DispatchIdle /\ WriterIdle
    /\ s3world \in BucketWorlds /\ ddbworld \in TableWorlds
    /\ ScannerIdle

Errors == {"ClientError:AccessDenied", "EndpointConnectionError"}

NextScan ==
    \/ ScanInvoke
    \/ ListBuckets
    \/ \E error \in Errors : ListBucketsFails(error)
    \/ CheckBucket
    \/ BucketsDone
    \/ ListTables
    \/ \E error \in Errors : ListTablesFails(error)
    \/ CheckTable
    \/ TablesDone
    \/ SendAlert
    \/ \E error \in Errors : SendAlertFails(error)
    \/ ScanReturn
    \/ \E published \in BOOLEAN : ScanFailed(published)

SpecScan == InitScan /\ [][NextScan]_vars

\* ------------------------------------------------------------------------
\* Properties
\* ------------------------------------------------------------------------

\* the rejection rules of the validator, stated on the characters of s
Rejectable(s) ==
    \/ s = <<>>
    \/ \A i \in 1..Len(s) : s[i] = " " \/ s[i] = "TAB"
    \/ Len(s) >= 1025
    \/ \E i \in 1..Len(s) : i < Len(s) /\ s[i] = "." /\ s[i + 1] = "."
    \/ (s # <<>> /\ Head(s) = "/")
    \/ \E i \in 1..Len(s) : s[i] = "NUL"

\* C8: validate_s3_key (and likewise validate_filename) rejects a string if
\* and only if it is empty or whitespace-only, longer than 1024 characters,
\* contains '..', begins with '/' or contains a null byte; every other
\* string is accepted, and the call leaves the table, the executions and
\* every invocation untouched.
C8_ValidatorRejectsExactlyUnsafe ==
    /\ vs3 # None => ((vs3 # "ok") <=> Rejectable(vkey))
    /\ vfn # None => ((vfn # "ok") <=> Rejectable(vkey))
    /\ store = {} /\ executions = <<>> /\ dpc = "idle"
    /\ \A w \in Writers : wpc[w] = "idle"

\* a key of 1025 characters that has no other defect was rejected by both
C8_Witness ==
    /\ Len(vkey) = 1025 /\ vkey[1] = " " /\ vkey[2] = "."
    /\ vs3 = "ValueError:too-long" /\ vfn = "ValueError:too-long"

\* C9: validate_s3_key and validate_filename agree on accept versus reject
\* for every input string.
C9_ValidatorsAgree ==
    (vs3 # None /\ vfn # None) => ((vs3 = "ok") <=> (vfn = "ok"))

\* both validators rejected a string, each for the rule it checks first
C9_Witness ==
    /\ vs3 = "ValueError:null-bytes" /\ vfn = "ValueError:too-long"

\* executions started by the current Dispatch invocation for notification n
StartedFor(n) ==
    {e \in 1..Len(executions) :
        /\ executions[e].delivery = deliveries
        /\ executions[e].input.bucket = n.bucket
        /\ executions[e].input.key = n.key
        /\ executions[e].input.event_time = n.eventTime}

\* C1: when a Dispatch invocation returns, every notification of the batch
\* whose key is valid has exactly one started execution, wherever the
\* invalid notifications stand in the batch.
C1_EveryValidNotificationStarted ==
    dpc = "returned" =>
        \A i \in 1..Len(pending) :
            ~Rejectable(pending[i].key) => Cardinality(StartedFor(pending[i])) = 1

\* handles of the executions started by the current invocation, in order
StartedArns ==
    LET mine == SelectSeq(executions, LAMBDA x : x.delivery = deliveries)
    IN  [i \in 1..Len(mine) |-> mine[i].arn]

\* C7: a returned Dispatch result has status 200 and lists exactly the
\* handles of the executions started during the invocation, in batch order;
\* the message-only result is returned only when every notification of the
\* batch failed validation.
C7_ResultListsStartedExecutions ==
    dpc = "returned" =>
        /\ dresult.statusCode = 200
        /\ IF "executions" \in DOMAIN dresult.body
           THEN dresult.body.executions = StartedArns
           ELSE \A i \in 1..Len(pending) : Rejectable(pending[i].key)

\* C10: every WorkflowInput handed to start_execution carries a key that
\* passed the validator, the bucket, key and eventTime of the notification
\* being processed, and the clock value of the moment of dispatch; started
\* executions are never altered afterwards.
C10_OnlyValidatedInputsSubmitted ==
    [][/\ Len(executions') >= Len(executions)
       /\ \A e \in 1..Len(executions') :
            IF e <= Len(executions) THEN executions'[e] = executions[e]
            ELSE /\ dpc = "loop" /\ di \in 1..Len(pending)
                 /\ e = Len(executions) + 1
                 /\ ~Rejectable(executions'[e].input.key)
                 /\ executions'[e].input.bucket = pending[di].bucket
                 /\ executions'[e].input.key = pending[di].key
                 /\ executions'[e].input.event_time = pending[di].eventTime
                 /\ executions'[e].input.timestamp = clock]_vars

\* an execution was started at clock 1 from a batch that also holds an
\* invalid key
C10_Witness ==
    /\ \E e \in 1..Len(executions) : executions[e].input.timestamp = 1
    /\ \E i \in 1..Len(pending) : Rejectable(pending[i].key)

\* C4: the table never holds two records for the same upload notification
\* (same bucket, key and eventTime).
C4_OneRecordPerNotification ==
    \A r1, r2 \in store :
        (r1.Bucket = r2.Bucket /\ r1.Filename = r2.Filename /\ r1.EventTime = r2.EventTime)
            => r1 = r2

KeyOf(item) == <<item.Filename, item.UploadTimestamp>>
Finished(w) == wpc[w] = "returned"

\* C2: among the Writer invocations that returned for one
\* (Filename, UploadTimestamp), exactly one returned 200 and every other
\* one returned 409, whatever the order and interleaving.
C2_OneWrittenRestDuplicate ==
    \A w \in Writers :
        Finished(w) =>
            /\ wresult[w].statusCode \in {200, 409}
            /\ Cardinality({v \in Writers :
                    /\ Finished(v) /\ KeyOf(witem[v]) = KeyOf(witem[w])
                    /\ wresult[v].statusCode = 200}) = 1

\* two invocations for the same key and different buckets returned, one
\* with 200 and one with 409
C2_Witness ==
    \E w1, w2 \in Writers :
        /\ Finished(w1) /\ Finished(w2)
        /\ KeyOf(witem[w1]) = KeyOf(witem[w2])
        /\ witem[w1].Bucket # witem[w2].Bucket
        /\ wresult[w1].statusCode = 200 /\ wresult[w2].statusCode = 409

\* C3: the table holds at most one record per (Filename, UploadTimestamp)
\* and a record, once created, is never updated or deleted.
C3_RecordsAreImmutable ==
    [][/\ \A r \in store : r \in store'
       /\ \A r1, r2 \in store' : KeyOf(r1) = KeyOf(r2) => r1 = r2]_vars

\* a later write with the key of a stored record and another Bucket was
\* answered 409 and the stored record still has its Bucket
C3_Witness ==
    \E w \in Writers :
        /\ Finished(w) /\ wresult[w].statusCode = 409
        /\ witem[w] \notin store
        /\ \E r \in store : KeyOf(r) = KeyOf(witem[w]) /\ r.Bucket # witem[w].Bucket

ScanOver == spc \in {"returned", "raised"}

\* buckets and tables that the policy flags, in enumeration order
FlaggedBuckets ==
    SelectSeq([i \in 1..Len(s3world) |-> i],
              LAMBDA i : s3world[i] \in Algorithms \cup {NotFoundCode} /\ s3world[i] # "aws:kms")
FlaggedTables ==
    SelectSeq([i \in 1..Len(ddbworld) |-> i],
              LAMBDA i : ddbworld[i] \in {"DISABLED", "ENABLING", "NoSSEDescription"})

\* C5: a failure while inspecting one bucket or one table (anything but the
\* no-configuration error) never aborts the scan: the invocation does not
\* fail because of it, and it returns status 200 with every other bucket
\* and table classified.
C5_InspectionFailureDoesNotAbort ==
    /\ spc \in {"failed", "raised"} => serror.op \notin {"inspect_bucket", "inspect_table"}
    /\ spc = "returned" =>
        /\ sresult.statusCode = 200
        /\ sresult.issues_found = Len(FlaggedBuckets) + Len(FlaggedTables)

AlertPublishes == SelectSeq(publishes, LAMBDA m : m.subject = AlertSubject)
FailedPublishes == SelectSeq(publishes, LAMBDA m : m.subject = FailedSubject)

\* C6 as stated: an invocation whose aggregate is non-empty invokes publish
\* exactly once, also when that publish fails; an invocation whose
\* aggregate is empty never invokes publish.
C6_PublishInvokedOnceOrNever ==
    ScanOver => Len(publishes) = (IF all_issues # <<>> THEN 1 ELSE 0)

\* both checks of the invocation ran to their end
ChecksCompleted == spc = "returned" \/ (spc = "raised" /\ serror.op = "publish")

\* C6 amended: an invocation that completes both checks with a non-empty
\* aggregate attempts the issue alert exactly once, also when that publish
\* fails, and one with an empty aggregate attempts none; the only other
\* publish of an invocation is the single scan-failed message that every
\* raising invocation attempts.
C6_OneIssueAlertPerCompletedScan ==
    ScanOver =>
        /\ Len(AlertPublishes) = (IF ChecksCompleted /\ all_issues # <<>> THEN 1 ELSE 0)
        /\ Len(FailedPublishes) = (IF spc = "raised" THEN 1 ELSE 0)
        /\ Len(publishes) = Len(AlertPublishes) + Len(FailedPublishes)
        /\ (ChecksCompleted /\ all_issues = <<>>) => publishes = <<>>

\* the issue alert of a scan with a bucket issue and a table issue failed
\* to publish and the invocation raised after the scan-failed attempt
C6_Witness ==
    /\ spc = "raised" /\ serror.op = "publish"
    /\ Len(all_issues) = 2 /\ Len(s3_issues) = 1
    /\ Len(publishes) = 2 /\ ~publishes[1].ok /\ publishes[1].subject = AlertSubject

DispatchOver == dpc \in {"returned", "raised"}

\* C11: if start_execution fails for a notification of the batch, the
\* Dispatch invocation ends by raising to its caller and has no status-200
\* result.
C11_FailedSubmissionPropagates ==
    sfn_failed => (dpc = "raised" /\ dresult.statusCode # 200)

\* C12: a Dispatch invocation whose only failures are key-validation
\* failures never raises: it ends with a status-200 result.
C12_ValidationFailuresNeverRaise ==
    (DispatchOver /\ ~sfn_failed) => (dpc = "returned" /\ dresult.statusCode = 200)

\* a batch of two invalid keys ended with status 200 and no execution
C12_Witness ==
    /\ dpc = "returned" /\ dresult.statusCode = 200 /\ ~sfn_failed
    /\ Len(pending) = 2 /\ \A i \in 1..Len(pending) : Rejectable(pending[i].key)
    /\ executions = <<>>

\* C13: a Writer invocation whose key fails filename validation ends by
\* raising a validation error, with no 200 or 409 result; put_item is never
\* attempted for it and no record with such a key enters the table.
C13_InvalidFilenameFailsBeforePut ==
    /\ \A w \in Writers :
        (wpc[w] # "idle" /\ Rejectable(wevent[w].key)) =>
            /\ wpc[w] = "raised"
            /\ wresult[w].statusCode \notin {200, 409}
            /\ "error" \in DOMAIN wresult[w] /\ wresult[w].error = "ValueError"
            /\ wput[w] = None /\ witem[w] = NoItem
    /\ \A r \in store : ~Rejectable(r.Filename)

\* an invocation with an invalid key raised while the table held a record
\* written by another invocation
C13_Witness ==
    \E w \in Writers :
        /\ wpc[w] = "raised" /\ Rejectable(wevent[w].key) /\ wput[w] = None
        /\ store # {}

\* C14: a Writer invocation returns 200 (with filename, timestamp, bucket)
\* only if its put succeeded and its record is in the table; it returns 409
\* (with filename, timestamp and the duplicate message) exactly when
\* put_item answered ConditionalCheckFailedException; any other failure of
\* put_item ends the invocation by raising, never with 200 or 409.
C14_ResultReflectsStoreAnswer ==
    \A w \in Writers :
        /\ wresult[w].statusCode = 200 =>
            /\ wput[w] = "ok" /\ witem[w] \in store
            /\ wresult[w].filename = witem[w].Filename
            /\ wresult[w].timestamp = witem[w].UploadTimestamp
            /\ wresult[w].bucket = witem[w].Bucket
        /\ wresult[w].statusCode = 409 <=> wput[w] = "ConditionalCheckFailedException"
        /\ wresult[w].statusCode = 409 =>
            /\ wresult[w].filename = witem[w].Filename
            /\ wresult[w].timestamp = witem[w].UploadTimestamp
            /\ wresult[w].message = "Duplicate entry - item already exists"
            /\ "bucket" \notin DOMAIN wresult[w]
        /\ wput[w] \notin {None, "ok", "ConditionalCheckFailedException"} =>
            /\ wpc[w] = "raised" /\ wresult[w].statusCode \notin {200, 409}

\* one invocation wrote a record and returned 200; the put of another
\* invocation for the same key failed in the store and raised
C14_Witness ==
    \E w1, w2 \in Writers :
        /\ wresult[w1].statusCode = 200
        /\ wpc[w2] = "raised" /\ wput[w2] = "ProvisionedThroughputExceededException"
        /\ KeyOf(witem[w1]) = KeyOf(witem[w2])

\* C15: when list_buckets or list_tables fails, the invocation attempts
\* exactly one publish, the scan-failed message about that error, and then
\* raises that same error to its caller, whether the publish succeeded or
\* not; it has no status-200 result.
C15_EnumerationFailureSurfaced ==
    (spc = "raised" /\ serror.op \in {"list_buckets", "list_tables"}) =>
        /\ Len(publishes) = 1
        /\ publishes[1].subject = "Security Scan FAILED"
        /\ publishes[1].message[Len(publishes[1].message)] = serror.error
        /\ sresult.statusCode # 200
        /\ sresult.raised = serror.error

\* list_tables failed after a bucket issue had been found, the scan-failed
\* publish failed too, and the invocation raised
C15_Witness ==
    /\ spc = "raised" /\ serror.op = "list_tables"
    /\ s3_issues # <<>>
    /\ Len(publishes) = 1 /\ ~publishes[1].ok

BucketIssuesOf(i) == SelectSeq(s3_issues, LAMBDA issue : issue.name = BucketName(i))
BucketInspected(i) == i \in 1..Len(s3world) /\ i < bi

\* C16: every inspected bucket whose algorithm is aws:kms has no issue, one
\* with any other algorithm has exactly one issue whose reason names that
\* algorithm, and one without encryption configuration has exactly one
\* issue with the no-configuration reason.
C16_BucketClassification ==
    \A i \in 1..Len(s3world) :
        BucketInspected(i) =>
            /\ s3world[i] = "aws:kms" => BucketIssuesOf(i) = <<>>
            /\ s3world[i] \in {"AES256", "aws:kms:dsse"} =>
                /\ Len(BucketIssuesOf(i)) = 1
                /\ BucketIssuesOf(i)[1].reason =
                     <<"is not encrypted with a KMS key (uses default ", s3world[i], " encryption).">>
            /\ s3world[i] = "ClientError:ServerSideEncryptionConfigurationNotFoundError" =>
                /\ Len(BucketIssuesOf(i)) = 1
                /\ BucketIssuesOf(i)[1].reason = <<"has no encryption configuration at all.">>

\* a scan returned after classifying an AES256 bucket and a bucket without
\* encryption configuration
C16_Witness ==
    /\ spc = "returned" /\ Len(s3world) = 2
    /\ s3world[1] = "AES256" /\ s3world[2] = NotFoundCode
    /\ Len(s3_issues) = 2

TableInspected(i) == i \in 1..Len(ddbworld) /\ i < ti
TableIssueCount(i) ==
    Cardinality({j \in 1..Len(unencrypted_tables) : unencrypted_tables[j] = TableName(i)})

\* C17: every inspected table whose encryption status is ENABLED has no
\* issue, and one without SSEDescription or with any other status has
\* exactly one issue naming that table.
C17_TableClassification ==
    \A i \in 1..Len(ddbworld) :
        TableInspected(i) =>
            /\ ddbworld[i] = "ENABLED" => TableIssueCount(i) = 0
            /\ ddbworld[i] \in {"NoSSEDescription", "DISABLED", "ENABLING"} =>
                TableIssueCount(i) = 1

\* a scan returned after classifying a table without SSEDescription and an
\* encrypted table
C17_Witness ==
    /\ spc = "returned" /\ Len(ddbworld) = 2
    /\ ddbworld[1] = "NoSSEDescription" /\ ddbworld[2] = "ENABLED"
    /\ unencrypted_tables = <<TableName(1)>>

ExpectedBucketLine(i) ==
    <<"S3 Bucket '", BucketName(i), "' ">> \o
    (IF s3world[i] = "ClientError:ServerSideEncryptionConfigurationNotFoundError"
     THEN <<"has no encryption configuration at all.">>
     ELSE <<"is not encrypted with a KMS key (uses default ", s3world[i], " encryption).">>)
ExpectedTableLine(i) == <<"DynamoDB Table '", TableName(i), "' is not encrypted.">>

\* C18: the result of a scan has status 200, lists the bucket issues in
\* bucket enumeration order followed by the table issues in table
\* enumeration order, and issues_found is the length of that list.
C18_ResultOrderAndCount ==
    spc = "returned" =>
        /\ sresult.statusCode = 200
        /\ sresult.body.issues =
             [k \in 1..Len(FlaggedBuckets) |-> ExpectedBucketLine(FlaggedBuckets[k])]
             \o [k \in 1..Len(FlaggedTables) |-> ExpectedTableLine(FlaggedTables[k])]
        /\ sresult.issues_found = Len(sresult.body.issues)

\* a scan returned one bucket issue, found after a compliant bucket, and
\* two table issues
C18_Witness ==
    /\ spc = "returned" /\ sresult.issues_found = 3
    /\ Len(s3world) = 2 /\ s3world[1] = "aws:kms"
    /\ Len(s3_issues) = 1 /\ Len(unencrypted_tables) = 2

\* C19: an invocation of Dispatch, of the Writer or of the Scanner raises
\* to its caller only for a system error (a failed start_execution, a
\* store failure other than the conditional check, a failed enumeration or
\* publish), never for a validation failure, a duplicate or a failure to
\* inspect one resource; every other finished invocation has a result with
\* a status code.
C19_OnlySystemErrorsPropagate ==
    /\ dpc = "raised" => sfn_failed
    /\ dpc = "returned" => dresult.statusCode = 200
    /\ \A w \in Writers :
        /\ wpc[w] = "raised" => wput[w] \notin {None, "ok", "ConditionalCheckFailedException"}
        /\ wpc[w] = "returned" => wresult[w].statusCode \in {200, 409}
    /\ spc = "raised" => serror.op \in {"list_buckets", "list_tables", "publish"}
    /\ spc = "returned" => sresult.statusCode = 200

\* the traits named by C20 as stated
HasStatedTrait(s) ==
    \/ \E i \in 1..Len(s) : i < Len(s) /\ s[i] = "." /\ s[i + 1] = "."
    \/ \E i \in 1..Len(s) : s[i] = "NUL"
    \/ Len(s) > 1024
    \/ \A i \in 1..Len(s) : s[i] \in {" ", "TAB"}

\* C20 as stated: every identifier that contains '..' or a null byte, is
\* longer than 1024 characters or is empty or whitespace-only is rejected,
\* and every other string of at most 1024 characters is accepted.
C20_StatedTraitsDecide ==
    /\ vs3 # None =>
        /\ HasStatedTrait(vkey) => vs3 # "ok"
        /\ (~HasStatedTrait(vkey) /\ Len(vkey) <= 1024) => vs3 = "ok"
    /\ vfn # None =>
        /\ HasStatedTrait(vkey) => vfn # "ok"
        /\ (~HasStatedTrait(vkey) /\ Len(vkey) <= 1024) => vfn = "ok"

\* C20 amended: beginning with '/' is a rejected trait as well; every
\* string of at most 1024 characters without any of the five traits is
\* accepted.
C20_TraitsWithLeadingSlashDecide ==
    /\ vs3 # None =>
        /\ (HasStatedTrait(vkey) \/ (vkey # <<>> /\ vkey[1] = "/")) => vs3 # "ok"
        /\ (~HasStatedTrait(vkey) /\ ~(vkey # <<>> /\ vkey[1] = "/") /\ Len(vkey) <= 1024)
            => vs3 = "ok"
    /\ vfn # None =>
        /\ (HasStatedTrait(vkey) \/ (vkey # <<>> /\ vkey[1] = "/")) => vfn # "ok"
        /\ (~HasStatedTrait(vkey) /\ ~(vkey # <<>> /\ vkey[1] = "/") /\ Len(vkey) <= 1024)
            => vfn = "ok"

\* the string "/a", which has none of the stated traits, was rejected by
\* both validators
C20_Witness ==
    /\ vkey = <<"/", "a">>
    /\ vs3 = "ValueError:path-traversal" /\ vfn = "ValueError:path-traversal"

\* the lines of a text: its tokens split at the newline tokens
RECURSIVE SplitLines(_)
SplitLines(toks) ==
    LET breaks == {k \in 1..Len(toks) : toks[k] = "\n"}
    IN  IF breaks = {} THEN <<toks>>
        ELSE LET k == CHOOSE b \in breaks : \A c \in breaks : b <= c
             IN  <<SubSeq(toks, 1, k - 1)>> \o SplitLines(SubSeq(toks, k + 1, Len(toks)))

\* C21: the message of every issue alert is the fixed preamble, then
\* exactly one line per issue of the aggregate list, in aggregate order,
\* each naming the resource and its reason, then the fixed postamble; so
\* every flagged bucket and table of the scan is named in the alert.
C21_AlertListsEveryIssue ==
    \A j \in 1..Len(publishes) :
        publishes[j].subject = "Audit Complete: Resources Need KMS Encryption Review" =>
            LET msg == publishes[j].message
                lines == SplitLines(SubSeq(msg, 2, Len(msg) - 1))
                nb == Len(FlaggedBuckets)
            IN  /\ msg[1] = message_intro /\ msg[Len(msg)] = message_footer
                /\ Len(lines) = Len(all_issues)
                /\ Len(lines) = nb + Len(FlaggedTables)
                /\ \A k \in 1..Len(lines) :
                    /\ lines[k] = <<"* ">> \o all_issues[k]
                    /\ lines[k] = <<"* ">> \o
                         (IF k <= nb THEN ExpectedBucketLine(FlaggedBuckets[k])
                          ELSE ExpectedTableLine(FlaggedTables[k - nb]))

\* the alert for one AES256 bucket and one table without SSEDescription was
\* published and the scan returned
C21_Witness ==
    /\ spc = "returned"
    /\ s3world = <<"AES256">> /\ ddbworld = <<"NoSSEDescription">>
    /\ Len(publishes) = 1 /\ publishes[1].ok
    /\ publishes[1].subject = AlertSubject

\* C22: a scan-failed publish has been attempted exactly once in an
\* invocation that ended by raising, whatever made it raise, and never in
\* an invocation that is still running or returned its status-200 result.
C22_ScanFailedPublishIffRaised ==
    /\ spc = "raised" =>
        /\ Len(FailedPublishes) = 1
        /\ publishes[Len(publishes)].subject = "Security Scan FAILED"
        /\ sresult.statusCode # 200
    /\ spc # "raised" => FailedPublishes = <<>>
    /\ spc = "returned" => sresult.statusCode = 200

\* the publish of the issue alert failed, the scan-failed message was then
\* published and the invocation raised
C22_Witness ==
    /\ spc = "raised" /\ serror.op = "publish"
    /\ Len(all_issues) = 1
    /\ Len(publishes) = 2 /\ ~publishes[1].ok /\ publishes[2].ok

\* C23: an issue alert is published only after both checks completed; when
\* list_tables fails no issue alert is published in that invocation, even
\* if bucket issues were found (only the scan-failed message, which carries
\* the error and no issue line); when list_buckets fails no table is inspected.
C23_AlertOnlyAfterBothChecks ==
    /\ AlertPublishes # <<>> =>
        /\ spc \in {"return", "returned", "failed", "raised"}
        /\ bi > Len(s3world) /\ ti > Len(ddbworld)
        /\ serror.op \in {None, "publish"}
    /\ serror.op = "list_tables" =>
        /\ AlertPublishes = <<>>
        /\ \A j \in 1..Len(publishes) :
            /\ publishes[j].subject = "Security Scan FAILED"
            /\ Len(publishes[j].message) = 2
            /\ publishes[j].message[1] # message_intro
            /\ publishes[j].message[2] = serror.error
    /\ serror.op = "list_buckets" => (ti = 0 /\ unencrypted_tables = <<>>)

\* list_tables failed after two bucket issues had been found; only the
\* scan-failed message was published and the invocation raised
C23_Witness ==
    /\ spc = "raised" /\ serror.op = "list_tables"
    /\ Len(all_issues) = 2
    /\ Len(publishes) = 1 /\ publishes[1].ok /\ publishes[1].subject = FailedSubject

====
